---- MODULE Spec2Model ----
(***************************************************************************)
(* NexoraMix: the BrandMixer component, the apiService client             *)
(* (frontend/lib/api.js), the Supabase operations (frontend/lib/           *)
(* supabase.js) and the brand_combos relation with its increment_votes     *)
(* procedure (the SQL migration).  The Flask backend is not part of the    *)
(* sources; its POST /generate and POST /vote handlers follow spec.md.     *)
(***************************************************************************)
EXTENDS Integers, Sequences, FiniteSets, TLC

VARIABLES
    component,   \* which BrandMixer revision is mounted
    product1,    \* BrandMixer state: useState('')
    product2,    \* BrandMixer state: useState('')
    mode,        \* BrandMixer state: useState('competitive')
    loading,     \* BrandMixer state: useState(false)
    result,      \* BrandMixer state: useState(null)
    error,       \* BrandMixer state: useState('')
    genPc,       \* position of the pending handleGenerate/generateCombo call
    genReq,      \* body of the POST /generate request in flight
    genResp,     \* response.data held by generateCombo while the insert is pending
    insertReq,   \* record handed to supabaseOperations.createCombo, in flight
    degraded,    \* whether the generation provider failed for the pending request
    reqs,        \* generateCombo calls in flight; requests sent by the latest call
    rows,        \* the brand_combos relation, in insertion order
    now,         \* the database clock, now()
    vpc,         \* per caller: position in apiService.voteForCombo
    vtarget,     \* per caller: the comboId argument
    vapplied,    \* per caller: how many increments the store ran for the call
    voutcome,    \* per caller: what the call reported
    vtime,       \* per caller: now() of its open transaction (0 when it has none)
    lastEvent,   \* the BrandMixer handler that ran last
    listResult,  \* what the last getCombos call returned to its caller
    statsResult, \* what the last getStats call returned to its caller
    apiCall,     \* apiService: the read under way and the calls it has made
    combos,      \* Leaderboard state: useState([])
    stats,       \* Leaderboard state: useState({ totalCombos: 0, totalVotes: 0 })
    boardLoading, \* Leaderboard state: loading, useState(true)
    boardError,  \* Leaderboard state: error, useState('')
    fetchPc,     \* Leaderboard: position of fetchLeaderboard
    listResp,    \* Leaderboard: the answer to GET /leaderboard on its way
    statsReqs,   \* Leaderboard: the fetchStats calls, in the order they started
    votingLoading, \* Leaderboard state: the ids with votingLoading[id] true
    voteReqs     \* Leaderboard: the vote requests in flight

mixerVars == <<component, product1, product2, mode, loading, result, error>>
callVars == <<genPc, genReq, genResp, insertReq, degraded, reqs>>
storeVars == <<rows, now>>
voteVars == <<vpc, vtarget, vapplied, voutcome, vtime>>
readVars == <<listResult, statsResult, apiCall>>
boardVars == <<combos, stats, boardLoading, boardError, fetchPc, listResp,
               statsReqs, votingLoading, voteReqs>>
viewVars == <<lastEvent, readVars, boardVars>>
vars == <<mixerVars, callVars, storeVars, voteVars, viewVars>>

(***************************************************************************)
(* Bounds of the model.                                                    *)
(***************************************************************************)
MaxRows == 2
MaxTime == 1
NumVoters == 2

(***************************************************************************)
(* Strings are sequences of one-character strings, so that trim() and      *)
(* toLowerCase() are computed and not assumed.                             *)
(***************************************************************************)
Whitespace == {" "}

ToLowerChar(c) ==
    CASE c = "N" -> "n"
      [] c = "A" -> "a"
      [] OTHER -> c

ToLowerCase(s) == [i \in DOMAIN s |-> ToLowerChar(s[i])]

RECURSIVE TrimStart(_)
TrimStart(s) ==
    IF s # <<>> /\ Head(s) \in Whitespace THEN TrimStart(Tail(s)) ELSE s

RECURSIVE TrimEnd(_)
TrimEnd(s) ==
    IF s # <<>> /\ s[Len(s)] \in Whitespace
    THEN TrimEnd(SubSeq(s, 1, Len(s) - 1))
    ELSE s

Trim(s) == TrimEnd(TrimStart(s))

\* JavaScript truthiness of a string: '' is falsy
Truthy(s) == s # <<>>

\* what the user can type into the two brand inputs
InputNames ==
    { <<>>, <<" ">>, <<"N">>, <<"n">>, <<"n", " ">>, <<"A">> }

Modes == {"competitive", "collaborative", "fusion"}

Components == {"frontend/components/BrandMixer.jsx", "unnamed/part_002"}

MsgBoth == "Please enter both brand names"
MsgDifferent == "Please select two different brands"
MsgFailed == "Failed to generate combo"
MsgBackend == "Generation rejected"

Null == [null |-> TRUE]

\* what a caller holds of an async call: nothing yet, the value the promise
\* resolved to, or the rejection
NoCall == [status |-> "none"]
Resolved(arg, data) == [status |-> "returned", arg |-> arg, data |-> data]
Rejected(arg) == [status |-> "threw", arg |-> arg]

\* no read of apiService under way, none made yet
NoApiCall == [op |-> "none", limit |-> 0, store |-> "none", backend |-> "none"]

SqlNull == "NULL"

Placeholder == "src/frontend/static/placeholder.png"

(***************************************************************************)
(* BrandMixer.handleGenerate: the validation in front of the request.      *)
(***************************************************************************)
\* a slip: the emptiness test without trim()
IsBlankUntrimmed(p1, p2) == ~Truthy(p1) \/ ~Truthy(p2)

\* !product1.trim() || !product2.trim()
IsBlank(p1, p2) == ~Truthy(Trim(p1)) \/ ~Truthy(Trim(p2))

\* a slip: the duplicate check without toLowerCase()
SameBrandCaseSensitive(c, p1, p2) ==
    IF c = "unnamed/part_002" THEN Trim(p1) = Trim(p2) ELSE p1 = p2

\* the duplicate check; the two revisions of the component differ in it
SameBrand(c, p1, p2) ==
    IF c = "unnamed/part_002"
    THEN ToLowerCase(Trim(p1)) = ToLowerCase(Trim(p2))
    ELSE ToLowerCase(p1) = ToLowerCase(p2)

\* err.message || '<the component's default text>'
HandleGenerateCatch(c, message) ==
    IF message # "" THEN message
    ELSE IF c = "unnamed/part_002"
         THEN "Failed to generate combo. Please try again."
         ELSE MsgFailed

(***************************************************************************)
(* apiService.generateCombo                                                *)
(***************************************************************************)
\* an argument the caller left out
Undefined == "undefined"

\* the default parameter: mode = 'competitive'
DefaultMode(m) == IF m = Undefined THEN "competitive" ELSE m

\* a slip: the request is built with the default mode, not the one supplied
GenerateBodyDefaultMode(p1, p2, m) ==
    [product1 |-> Trim(p1), product2 |-> Trim(p2), mode |-> "competitive"]

\* the body of api.post('/generate', ...)
GenerateBody(p1, p2, m) ==
    [product1 |-> Trim(p1), product2 |-> Trim(p2), mode |-> DefaultMode(m)]

\* the record handed to supabaseOperations.createCombo
CreateComboArg(combo) ==
    [name |-> combo.name,
     slogan |-> combo.slogan,
     description |-> combo.flavor_description,
     product1 |-> combo.components.a,
     product2 |-> combo.components.b,
     mode |-> combo.mode,
     votes |-> 0,
     host_reaction |-> combo.host_reaction]

\* error.response?.data?.error || 'Failed to generate combo'
GenerateErrorMessage(kind) ==
    IF kind = "http_error" THEN MsgBackend ELSE MsgFailed

FailureKinds == {"http_error", "http_no_body", "network", "timeout"}

\* a slip: no inner try/catch, the insert's error reaches the outer catch
InsertFailureRethrown(resp) == [threw |-> TRUE, value |-> Null, message |-> MsgFailed]

\* the inner catch: a failed createCombo is logged and response.data returned
InsertFailureOutcome(resp) == [threw |-> FALSE, value |-> resp, message |-> ""]

\* a slip: setResult(response.data.combo) on what is already response.data
ResultOfMissing(data) == Null

\* setResult(response.combo)
ResultOf(data) == data.combo

(***************************************************************************)
(* The backend's POST /generate (Generation Client and Image Client of     *)
(* spec.md sections 4.1 and 4.2).                                          *)
(***************************************************************************)
NormalizeMode(m) == IF m \in Modes THEN m ELSE "competitive"

GenerationClient(a, b, m, providerOk) ==
    IF providerOk
    THEN [name |-> <<"G">> \o a \o b,
          slogan |-> "generated slogan",
          flavor_description |-> "generated description",
          host_reaction |-> "generated reaction",
          compatibility_score |-> 87,
          unique_features |-> <<"feature">>,
          components |-> [a |-> a, b |-> b],
          mode |-> NormalizeMode(m)]
    ELSE [name |-> a \o <<"x">> \o b,
          slogan |-> "generic slogan",
          flavor_description |-> "generic description",
          host_reaction |-> "generic reaction",
          compatibility_score |-> 0,
          unique_features |-> <<>>,
          components |-> [a |-> a, b |-> b],
          mode |-> NormalizeMode(m)]

ImageClient(fusion, imageOk) == IF imageOk THEN "generated image" ELSE Placeholder

BackendGenerate(body, providerOk, imageOk) ==
    LET fusion == GenerationClient(body.product1, body.product2, body.mode, providerOk)
    IN  [combo |-> fusion @@
                   [image_url |-> ImageClient(fusion, imageOk)]]

(***************************************************************************)
(* The brand_combos relation.                                              *)
(***************************************************************************)
Col(record, column, default) ==
    IF column \in DOMAIN record THEN record[column] ELSE default

\* one inserted row: the column defaults of CREATE TABLE brand_combos
brand_combos(combo, id, t) ==
    [id |-> id,
     name |-> combo.name,
     slogan |-> Col(combo, "slogan", SqlNull),
     description |-> Col(combo, "description", SqlNull),
     product1 |-> combo.product1,
     product2 |-> combo.product2,
     mode |-> Col(combo, "mode", "competitive"),
     votes |-> Col(combo, "votes", 0),
     host_reaction |-> Col(combo, "host_reaction", SqlNull),
     image_url |-> Col(combo, "image_url", SqlNull),
     compatibility_score |-> Col(combo, "compatibility_score", 0),
     created_at |-> Col(combo, "created_at", t),
     updated_at |-> Col(combo, "updated_at", t)]

\* .insert([combo]).select(): gen_random_uuid() never repeats an id
InsertCombo(rs, combo, t) == Append(rs, brand_combos(combo, Len(rs) + 1, t))

Ids == {rows[i].id : i \in DOMAIN rows}

(***************************************************************************)
(* Actions of the BrandMixer.                                              *)
(***************************************************************************)
\* a slip: the Generate button and the Enter key without their loading test
CanGenerateAlways(l) == TRUE

\* disabled={loading || ...} on the Generate button and
\* e.key === 'Enter' && !loading in handleKeyPress
CanGenerate(l) == ~l

\* handleGenerate up to its first await
HandleGenerate ==
    /\ CanGenerate(loading)
    /\ IF IsBlank(product1, product2)
       THEN /\ error' = MsgBoth
            /\ UNCHANGED <<loading, result, callVars>>
       ELSE IF SameBrand(component, product1, product2)
       THEN /\ error' = MsgDifferent
            /\ UNCHANGED <<loading, result, callVars>>
       ELSE /\ loading' = TRUE
            /\ error' = ""
            /\ result' = Null
            /\ genReq' = GenerateBody(product1, product2, mode)
            /\ genPc' = "post"
            /\ degraded' = FALSE
            /\ reqs' = [inflight |-> reqs.inflight + 1, generate |-> 1, insert |-> 0]
            /\ UNCHANGED <<genResp, insertReq>>
    /\ lastEvent' = "handleGenerate"
    /\ UNCHANGED <<component, product1, product2, mode>>
    /\ UNCHANGED <<storeVars, voteVars, readVars, boardVars>>

\* a slip: the catch logs the error and sets no message
FinishGenerateSilent(outcome) ==
    /\ IF outcome.threw
       THEN UNCHANGED <<result, error>>
       ELSE /\ result' = ResultOf(outcome.value)
            /\ UNCHANGED error
    /\ loading' = FALSE
    /\ genPc' = "idle"
    /\ genReq' = Null
    /\ genResp' = Null
    /\ insertReq' = Null
    /\ reqs' = [reqs EXCEPT !.inflight = @ - 1]
    /\ UNCHANGED <<component, product1, product2, mode>>

\* the end of handleGenerate: setResult or setError, then setLoading(false)
FinishGenerate(outcome) ==
    /\ IF outcome.threw
       THEN /\ error' = HandleGenerateCatch(component, outcome.message)
            /\ UNCHANGED result
       ELSE /\ result' = ResultOf(outcome.value)
            /\ UNCHANGED error
    /\ loading' = FALSE
    /\ genPc' = "idle"
    /\ genReq' = Null
    /\ genResp' = Null
    /\ insertReq' = Null
    /\ reqs' = [reqs EXCEPT !.inflight = @ - 1]
    /\ UNCHANGED <<component, product1, product2, mode>>

\* POST /generate answers 200; generateCombo goes on to createCombo
PostGenerateOk ==
    /\ genPc = "post"
    /\ \E providerOk \in BOOLEAN, imageOk \in BOOLEAN :
         /\ genResp' = BackendGenerate(genReq, providerOk, imageOk)
         /\ degraded' = ~providerOk
    /\ insertReq' = CreateComboArg(genResp'.combo)
    /\ reqs' = [reqs EXCEPT !.insert = @ + 1]
    /\ genPc' = "insert"
    /\ UNCHANGED <<genReq, mixerVars, storeVars, voteVars, viewVars>>

\* a slip: a failed POST /generate is sent again
PostGenerateFailRetried ==
    /\ genPc = "post"
    /\ reqs' = [reqs EXCEPT !.generate = @ + 1]
    /\ UNCHANGED <<genPc, genReq, genResp, insertReq, degraded>>
    /\ UNCHANGED <<mixerVars, storeVars, voteVars, viewVars>>

\* POST /generate fails: an error status, no connection, or the 10 s timeout
PostGenerateFail ==
    /\ genPc = "post"
    /\ \E kind \in FailureKinds :
         FinishGenerate([threw |-> TRUE, value |-> Null,
                         message |-> GenerateErrorMessage(kind)])
    /\ UNCHANGED <<degraded, storeVars, voteVars, viewVars>>

\* the insert succeeds
CreateComboOk ==
    /\ genPc = "insert"
    /\ Len(rows) < MaxRows
    /\ rows' = InsertCombo(rows, insertReq, now)
    /\ FinishGenerate([threw |-> FALSE, value |-> genResp, message |-> ""])
    /\ UNCHANGED <<degraded, now, voteVars, viewVars>>

\* the insert reports an error: rejected or unreachable (no row), or the
\* answer is lost after the row was written
CreateComboFail ==
    /\ genPc = "insert"
    /\ \E written \in BOOLEAN :
         IF written
         THEN /\ Len(rows) < MaxRows
              /\ rows' = InsertCombo(rows, insertReq, now)
         ELSE UNCHANGED rows
    /\ FinishGenerate(InsertFailureOutcome(genResp))
    /\ UNCHANGED <<degraded, now, voteVars, viewVars>>

(***************************************************************************)
(* The BrandMixer with its generate flow.                                  *)
(***************************************************************************)
InitCalls ==
    /\ reqs = [inflight |-> 0, generate |-> 0, insert |-> 0]
    /\ genPc = "idle"
    /\ genReq = Null
    /\ genResp = Null
    /\ insertReq = Null
    /\ degraded = FALSE

InitStore ==
    /\ rows = <<>>
    /\ now = 0

InitVotes ==
    /\ vpc = [v \in 1..NumVoters |-> "idle"]
    /\ vtarget = [v \in 1..NumVoters |-> 0]
    /\ vapplied = [v \in 1..NumVoters |-> 0]
    /\ voutcome = [v \in 1..NumVoters |-> "none"]
    /\ vtime = [v \in 1..NumVoters |-> 0]

InitViews ==
    /\ lastEvent = "none"
    /\ listResult = NoCall
    /\ statsResult = NoCall
    /\ apiCall = NoApiCall
    /\ combos = <<>>
    /\ stats = [totalCombos |-> 0, totalVotes |-> 0]
    /\ boardLoading = TRUE
    /\ boardError = ""
    /\ fetchPc = "new"
    /\ listResp = Null
    /\ statsReqs = <<>>
    /\ votingLoading = {}
    /\ voteReqs = <<>>

\* the component after the user has filled in the form
Init ==
    /\ component \in Components
    /\ product1 \in InputNames
    /\ product2 \in InputNames
    /\ mode \in Modes
    /\ loading = FALSE
    /\ result = Null
    /\ error = ""
    /\ InitCalls
    /\ InitStore
    /\ InitVotes
    /\ InitViews

Next ==
    \/ HandleGenerate
    \/ PostGenerateOk
    \/ PostGenerateFail
    \/ CreateComboOk
    \/ CreateComboFail

Spec == Init /\ [][Next]_vars

(***************************************************************************)
(* The store operations: increment_votes, getCombos, getStats.             *)
(***************************************************************************)
DefaultLimit == 10

Limits == {1, DefaultLimit}

Min(a, b) == IF a <= b THEN a ELSE b

\* a slip: the caller's read-modify-write, SET votes = <value read at creation> + 1
increment_votes_stale(rs, combo_id, t) ==
    [i \in DOMAIN rs |->
        IF rs[i].id = combo_id
        THEN [rs[i] EXCEPT !.votes = 1, !.updated_at = t]
        ELSE rs[i]]

\* a slip: votes = votes - 1
increment_votes_down(rs, combo_id, t) ==
    [i \in DOMAIN rs |->
        IF rs[i].id = combo_id
        THEN [rs[i] EXCEPT !.votes = @ - 1, !.updated_at = t]
        ELSE rs[i]]

\* a slip: the UPDATE without its WHERE clause
increment_votes_all(rs, combo_id, t) ==
    [i \in DOMAIN rs |-> [rs[i] EXCEPT !.votes = @ + 1, !.updated_at = t]]

\* UPDATE brand_combos SET votes = votes + 1, updated_at = now()
\* WHERE id = combo_id: one statement, run atomically by the database
increment_votes(rs, combo_id, t) ==
    [i \in DOMAIN rs |->
        IF rs[i].id = combo_id
        THEN [rs[i] EXCEPT !.votes = @ + 1, !.updated_at = t]
        ELSE rs[i]]

\* the number of rows the UPDATE matches
Matched(rs, combo_id) == Cardinality({i \in DOMAIN rs : rs[i].id = combo_id})

\* supabaseOperations.voteForCombo: throws only if the rpc reports an error
RpcOutcome(delivered) == IF delivered THEN "returned" ELSE "threw"

\* a slip: .order('votes', { ascending: true })
RECURSIVE OrderByVotesAscending(_, _)
OrderByVotesAscending(rs, S) ==
    IF S = {} THEN { <<>> }
    ELSE UNION { { <<rs[k]>> \o rest : rest \in OrderByVotesAscending(rs, S \ {k}) } :
                   k \in {i \in S : \A j \in S : rs[i].votes <= rs[j].votes} }

\* .order('votes', { ascending: false }) over the rows with index in S: the
\* row with the most votes first, then the rest in the same way; rows with
\* equal votes come in no specified order, so the result is a set of sequences
RECURSIVE OrderByVotes(_, _)
OrderByVotes(rs, S) ==
    IF S = {} THEN { <<>> }
    ELSE UNION { { <<rs[k]>> \o rest : rest \in OrderByVotes(rs, S \ {k}) } :
                   k \in {i \in S : \A j \in S : rs[i].votes >= rs[j].votes} }

\* .limit(n)
Limit(data, n) == SubSeq(data, 1, Min(n, Len(data)))

getCombos_ascending(rs, limit) ==
    { Limit(data, limit) : data \in OrderByVotesAscending(rs, DOMAIN rs) }

\* supabaseOperations.getCombos: what the query may return
getCombos(rs, limit) ==
    { Limit(data, limit) : data \in OrderByVotes(rs, DOMAIN rs) }

\* data.reduce((sum, combo) => sum + combo.votes, 0)
RECURSIVE SumVotes(_)
SumVotes(data) ==
    IF data = <<>> THEN 0 ELSE SumVotes(SubSeq(data, 1, Len(data) - 1)) + data[Len(data)].votes

\* a slip: the reduce counts the rows instead of adding their votes
getStats_count(rs) == [totalCombos |-> Len(rs), totalVotes |-> Len(rs)]

\* supabaseOperations.getStats
getStats(rs) == [totalCombos |-> Len(rs), totalVotes |-> SumVotes(rs)]

(***************************************************************************)
(* apiService.voteForCombo, called once by each of NumVoters callers.      *)
(***************************************************************************)
Voters == 1..NumVoters

\* an id that no row ever has
NoSuchId == 0

Tick ==
    /\ now < MaxTime
    /\ now' = now + 1
    /\ UNCHANGED <<rows, mixerVars, callVars, voteVars, viewVars>>

\* voteForCombo(comboId) up to the await of the rpc
VoteCall ==
    /\ \E v \in Voters, id \in Ids \cup {NoSuchId} :
         /\ vpc[v] = "idle"
         /\ voutcome[v] = "none"
         /\ vpc' = [vpc EXCEPT ![v] = "rpc"]
         /\ vtarget' = [vtarget EXCEPT ![v] = id]
    /\ UNCHANGED <<vapplied, voutcome, vtime, mixerVars, callVars, storeVars, viewVars>>

\* the rpc reaches the database, which starts the transaction of the call:
\* now() is the start time of the transaction for all of its statements
RpcBegin ==
    /\ \E v \in Voters :
         /\ vpc[v] = "rpc"
         /\ vpc' = [vpc EXCEPT ![v] = "txn"]
         /\ vtime' = [vtime EXCEPT ![v] = now]
    /\ UNCHANGED <<vtarget, vapplied, voutcome, mixerVars, callVars, storeVars, viewVars>>

\* the database runs increment_votes; the answer reaches the caller, or is
\* lost on the way and the client reports an error, which starts the fallback
RpcExecute ==
    /\ \E v \in Voters, delivered \in BOOLEAN :
         /\ vpc[v] = "txn"
         /\ rows' = increment_votes(rows, vtarget[v], vtime[v])
         /\ vapplied' = [vapplied EXCEPT ![v] = @ + Matched(rows, vtarget[v])]
         /\ IF RpcOutcome(delivered) = "returned"
            THEN /\ vpc' = [vpc EXCEPT ![v] = "done"]
                 /\ voutcome' = [voutcome EXCEPT ![v] = "voted"]
            ELSE /\ vpc' = [vpc EXCEPT ![v] = "post"]
                 /\ UNCHANGED voutcome
         /\ vtime' = [vtime EXCEPT ![v] = 0]
    /\ UNCHANGED <<vtarget, now, mixerVars, callVars, viewVars>>

\* the rpc never reaches the database: the fallback POST /vote is issued
RpcReject ==
    /\ \E v \in Voters :
         /\ vpc[v] = "rpc"
         /\ vpc' = [vpc EXCEPT ![v] = "post"]
    /\ UNCHANGED <<vtarget, vapplied, voutcome, vtime, mixerVars, callVars, storeVars, viewVars>>

\* the backend's POST /vote (spec.md 4.3 and 6): an atomic increment, or a
\* not-found error; the answer may be lost
BackendVote ==
    /\ \E v \in Voters, delivered \in BOOLEAN :
         /\ vpc[v] = "post"
         /\ rows' = increment_votes(rows, vtarget[v], now)
         /\ vapplied' = [vapplied EXCEPT ![v] = @ + Matched(rows, vtarget[v])]
         /\ vpc' = [vpc EXCEPT ![v] = "done"]
         /\ voutcome' = [voutcome EXCEPT ![v] =
                IF delivered /\ vtarget[v] \in Ids THEN "voted" ELSE "error"]
    /\ UNCHANGED <<vtarget, vtime, now, mixerVars, callVars, viewVars>>

\* POST /vote fails without reaching the backend
BackendVoteUnreachable ==
    /\ \E v \in Voters :
         /\ vpc[v] = "post"
         /\ vpc' = [vpc EXCEPT ![v] = "done"]
         /\ voutcome' = [voutcome EXCEPT ![v] = "error"]
    /\ UNCHANGED <<vtarget, vapplied, vtime, mixerVars, callVars, storeVars, viewVars>>

\* what generateCombo hands to createCombo for the request Nike x Adidas
ComboInputs ==
    { CreateComboArg(BackendGenerate(GenerateBody(<<"N">>, <<"A">>, "fusion"),
                                     providerOk, TRUE).combo) :
        providerOk \in {TRUE} }

\* supabaseOperations.createCombo: the insert, or an error and no row
CreateCombo ==
    /\ \E combo \in ComboInputs, ok \in BOOLEAN :
         IF ok
         THEN /\ Len(rows) < MaxRows
              /\ rows' = InsertCombo(rows, combo, now)
         ELSE UNCHANGED rows
    /\ UNCHANGED <<now, mixerVars, callVars, voteVars, viewVars>>

\* supabaseOperations.getCombos: a SELECT; the rows go to the caller and
\* nothing is written
GetCombos ==
    /\ \E limit \in Limits : \E data \in getCombos(rows, limit) : Len(data) <= limit
    /\ UNCHANGED vars

\* supabaseOperations.getStats: a SELECT of the votes column, summed by the
\* caller
GetStats ==
    /\ getStats(rows).totalCombos = Len(rows)
    /\ UNCHANGED vars

\* the store with callers that create, vote and read; no BrandMixer acts
InitWithStore ==
    /\ component = "frontend/components/BrandMixer.jsx"
    /\ product1 = <<>>
    /\ product2 = <<>>
    /\ mode = "competitive"
    /\ loading = FALSE
    /\ result = Null
    /\ error = ""
    /\ InitCalls
    /\ InitStore
    /\ InitVotes
    /\ InitViews

NextStore ==
    \/ CreateCombo
    \/ Tick
    \/ VoteCall
    \/ RpcBegin
    \/ RpcExecute
    \/ RpcReject
    \/ BackendVote
    \/ BackendVoteUnreachable
    \/ GetCombos
    \/ GetStats

SpecStore == InitWithStore /\ [][NextStore]_vars

(***************************************************************************)
(* Properties of the generate flow.                                        *)
(***************************************************************************)
OnlyWhitespace(s) == \A i \in DOMAIN s : s[i] \in Whitespace

Trimmed(s) == s = <<>> \/ (s[1] \notin Whitespace /\ s[Len(s)] \notin Whitespace)

NoExternalCall == UNCHANGED <<genPc, genReq, genResp, insertReq, rows>>

\* C1: a generate action on two brand names that are equal under case
\* folding ends with a validation message and issues neither the
\* POST /generate request nor a store insert.
TheoremC1 ==
    [][(HandleGenerate /\ ToLowerCase(product1) = ToLowerCase(product2))
         => /\ error' \in {MsgBoth, MsgDifferent}
            /\ NoExternalCall
            /\ UNCHANGED <<loading, result>>]_vars

WitnessC1 ==
    /\ error = MsgDifferent
    /\ product1 # product2
    /\ ToLowerCase(product1) = ToLowerCase(product2)
    /\ genPc = "idle"
    /\ ~loading

\* C2: a generate action with a brand name that is empty or only whitespace
\* sets the validation message, never sets loading, and issues neither the
\* POST /generate request nor a store insert.
TheoremC2 ==
    [][(HandleGenerate /\ (OnlyWhitespace(product1) \/ OnlyWhitespace(product2)))
         => /\ error' = MsgBoth
            /\ loading = FALSE /\ loading' = FALSE
            /\ NoExternalCall
            /\ UNCHANGED result]_vars

WitnessC2 ==
    /\ error = MsgBoth
    /\ product1 # <<>>
    /\ OnlyWhitespace(product1)
    /\ ~OnlyWhitespace(product2)
    /\ genPc = "idle"
    /\ ~loading

\* C3: every POST /generate request in flight carries product1 and product2
\* trimmed, non-empty and different from each other under case folding.
CounterexampleC3 ==
    genReq # Null =>
        /\ Trimmed(genReq.product1) /\ Trimmed(genReq.product2)
        /\ genReq.product1 # <<>> /\ genReq.product2 # <<>>
        /\ ToLowerCase(genReq.product1) # ToLowerCase(genReq.product2)

\* C4: when createCombo fails, generateCombo still returns the generated
\* result to handleGenerate, the result has no id, and no error is raised.
TheoremC4 ==
    [][CreateComboFail
         => /\ result' = genResp.combo
            /\ "id" \notin DOMAIN result'
            /\ error' = ""
            /\ loading' = FALSE]_vars

WitnessC4 ==
    /\ genPc = "idle"
    /\ result # Null
    /\ rows = <<>>
    /\ error = ""
    /\ ~loading

RowOf(id) == rows[CHOOSE i \in DOMAIN rows : rows[i].id = id]

RECURSIVE SumApplied(_, _)
SumApplied(callers, id) ==
    IF callers = {} THEN 0
    ELSE LET v == CHOOSE c \in callers : TRUE
         IN  (IF vtarget[v] = id THEN vapplied[v] ELSE 0)
                + SumApplied(callers \ {v}, id)

\* the callers whose call on id has returned from the Supabase rpc
Returned(id) ==
    {v \in Voters : vtarget[v] = id /\ vpc[v] = "done" /\ vapplied[v] = 1}

\* C6: under every interleaving of the callers, the votes of a combo equal
\* the number of increment_votes runs made for it (no update is lost); when
\* each of the N callers has made one run for it, votes = N.
TheoremC6 ==
    \A id \in Ids :
        /\ RowOf(id).votes = SumApplied(Voters, id)
        /\ Returned(id) = Voters => RowOf(id).votes = NumVoters

WitnessC6 ==
    \E id \in Ids :
        /\ Returned(id) = Voters
        /\ RowOf(id).votes = NumVoters

\* C7: a completed voteForCombo call on an existing combo has incremented
\* its votes at most once, and exactly once when it reports 'voted'.
CounterexampleC7 ==
    \A v \in Voters :
        (vpc[v] = "done" /\ vtarget[v] \in Ids)
            => /\ vapplied[v] <= 1
               /\ voutcome[v] = "voted" => vapplied[v] = 1

\* C8: a completed vote for an id that matches no row reports an error, not
\* success.
CounterexampleC8 ==
    \A v \in Voters :
        (vpc[v] = "done" /\ vtarget[v] \notin Ids) => voutcome[v] = "error"

\* C9: votes is never negative, is 0 in a row just created, never
\* decreases, and changes only in a step of the vote operation.
TheoremC9 ==
    [][/\ \A i \in DOMAIN rows' : rows'[i].votes >= 0
       /\ \A i \in DOMAIN rows' \ DOMAIN rows : rows'[i].votes = 0
       /\ \A i \in DOMAIN rows :
            /\ i \in DOMAIN rows'
            /\ rows'[i].votes >= rows[i].votes
            /\ rows'[i].votes # rows[i].votes => (RpcExecute \/ BackendVote)]_vars

WitnessC9 ==
    \E i, j \in DOMAIN rows :
        /\ i < j
        /\ rows[i].votes >= 2
        /\ rows[j].votes = 0

\* the columns of a row other than votes and updated_at
Frozen(r) == [c \in DOMAIN r \ {"votes", "updated_at"} |-> r[c]]

\* C10: no step removes a row or edits a column other than votes and
\* updated_at; a vote step for id leaves every other row as it was;
\* getCombos and getStats leave the relation as it was.
TheoremC10 ==
    [][/\ Len(rows') >= Len(rows)
       /\ \A i \in DOMAIN rows :
            /\ i \in DOMAIN rows'
            /\ Frozen(rows'[i]) = Frozen(rows[i])
       /\ \A v \in Voters :
            (vpc[v] \in {"txn", "post"} /\ vpc'[v] # vpc[v])
               => \A i \in DOMAIN rows :
                     rows[i].id # vtarget[v] => rows'[i] = rows[i]
       /\ (GetCombos \/ GetStats) => UNCHANGED <<rows, now>>]_vars

WitnessC10 ==
    \E i, j \in DOMAIN rows :
        /\ i # j
        /\ rows[i].votes > 0
        /\ rows[i].updated_at > rows[i].created_at
        /\ rows[j].votes = 0
        /\ rows[j].updated_at = rows[j].created_at

\* C20: every vote step leaves updated_at of the row not earlier than it was
\* and not earlier than created_at; updated_at changes only in a vote step.
CounterexampleC20 ==
    [][\A i \in DOMAIN rows :
         /\ rows'[i].updated_at >= rows[i].updated_at
         /\ rows'[i].updated_at >= rows'[i].created_at
         /\ rows'[i].updated_at # rows[i].updated_at
               => (RpcExecute \/ BackendVote)]_vars

(***************************************************************************)
(* Callers of getCombos and getStats on a store of any content.            *)
(***************************************************************************)
MaxListRows == 4

MaxBoardVotes == 2

VoteValues == {0, 1, 3, 5, 9}

ListLimits == {1, 3, DefaultLimit}

\* a store whose i-th combo has collected votes[i] votes
StoreWith(votes) ==
    [i \in DOMAIN votes |->
        [brand_combos(CHOOSE combo \in ComboInputs : TRUE, i, 0)
            EXCEPT !.votes = votes[i]]]

Stores ==
    UNION { {StoreWith(votes) : votes \in [1..n -> VoteValues]} : n \in 0..MaxListRows }

\* a call of supabaseOperations.getCombos(limit): the rows, or the error
\* of the query thrown
ListCall ==
    /\ \E limit \in ListLimits, ok \in BOOLEAN :
         IF ok
         THEN \E data \in getCombos(rows, limit) : listResult' = Resolved(limit, data)
         ELSE listResult' = Rejected(limit)
    /\ UNCHANGED <<statsResult, apiCall, lastEvent, boardVars>>
    /\ UNCHANGED <<mixerVars, callVars, storeVars, voteVars>>

\* a call of supabaseOperations.getStats(): the totals, or the error of the
\* query thrown
StatsCall ==
    /\ \E ok \in BOOLEAN :
         statsResult' = IF ok THEN Resolved("", getStats(rows)) ELSE Rejected("")
    /\ UNCHANGED <<listResult, apiCall, lastEvent, boardVars>>
    /\ UNCHANGED <<mixerVars, callVars, storeVars, voteVars>>

InitWithRows ==
    /\ component = "frontend/components/BrandMixer.jsx"
    /\ product1 = <<>>
    /\ product2 = <<>>
    /\ mode = "competitive"
    /\ loading = FALSE
    /\ result = Null
    /\ error = ""
    /\ InitCalls
    /\ rows \in Stores
    /\ now = 0
    /\ InitVotes
    /\ InitViews

NextList == ListCall \/ StatsCall

SpecList == InitWithRows /\ [][NextList]_vars

\* the votes of the rows of a sequence, in order
VotesOf(data) == [i \in DOMAIN data |-> data[i].votes]

\* C11: getCombos(limit) returns min(limit, number of rows) rows of the
\* store, no row twice, in descending order of votes, and no row left out
\* has more votes than a row returned; on votes [5, 1, 9, 3] with limit 3
\* the votes returned are [9, 5, 3].
TheoremC11 ==
    listResult.status = "returned" =>
        LET data == listResult.data
            limit == listResult.arg
        IN  /\ Len(data) = (IF limit <= Len(rows) THEN limit ELSE Len(rows))
            /\ \A i \in DOMAIN data : \E k \in DOMAIN rows : data[i] = rows[k]
            /\ \A i, j \in DOMAIN data : i # j => data[i].id # data[j].id
            /\ \A i, j \in DOMAIN data : i < j => data[i].votes >= data[j].votes
            /\ \A k \in DOMAIN rows :
                 (\A i \in DOMAIN data : data[i].id # rows[k].id)
                    => \A i \in DOMAIN data : data[i].votes >= rows[k].votes
            /\ (VotesOf(rows) = <<5, 1, 9, 3>> /\ limit = 3)
                    => VotesOf(data) = <<9, 5, 3>>

WitnessC11 ==
    /\ VotesOf(rows) = <<5, 1, 9, 3>>
    /\ listResult.status = "returned"
    /\ listResult.arg = 3
    /\ VotesOf(listResult.data) = <<9, 5, 3>>

\* C12: getStats returns totalCombos equal to the number of rows and
\* totalVotes equal to the number of votes cast over all rows; on an empty
\* store it returns {totalCombos: 0, totalVotes: 0}.
TheoremC12 ==
    statsResult.status = "returned" =>
        /\ statsResult.data.totalCombos = Cardinality(DOMAIN rows)
        /\ statsResult.data.totalVotes =
              Cardinality({<<i, n>> \in (DOMAIN rows) \X (1..9) : n <= rows[i].votes})
        /\ rows = <<>> => statsResult.data = [totalCombos |-> 0, totalVotes |-> 0]

WitnessC12 ==
    /\ VotesOf(rows) = <<5, 1, 9, 3>>
    /\ statsResult.status = "returned"
    /\ statsResult.data = [totalCombos |-> 4, totalVotes |-> 18]

(***************************************************************************)
(* The read endpoints of the backend.                                      *)
(***************************************************************************)
\* GET /leaderboard?limit=N: {combos: [Combo]}, sorted by votes descending
BackendLeaderboard(rs, limit) == { [combos |-> data] : data \in getCombos(rs, limit) }

\* GET /stats: {totalCombos, totalVotes}
BackendStats(rs) == getStats(rs)

(***************************************************************************)
(* The reads of apiService (frontend/lib/api.js): the store first, then    *)
(* for the leaderboard the backend.                                        *)
(***************************************************************************)
Zeros == [totalCombos |-> 0, totalVotes |-> 0]

\* apiService.getLeaderboard(limit) up to its first await
ApiGetLeaderboard ==
    /\ apiCall.store # "pending" /\ apiCall.backend # "pending"
    /\ \E limit \in ListLimits :
         apiCall' = [op |-> "getLeaderboard", limit |-> limit,
                     store |-> "pending", backend |-> "none"]
    /\ listResult' = NoCall
    /\ UNCHANGED <<statsResult, lastEvent, boardVars>>
    /\ UNCHANGED <<mixerVars, callVars, storeVars, voteVars>>

\* supabaseOperations.getCombos(limit) resolves: return { combos: supabaseData }
ApiStoreListOk ==
    /\ apiCall.op = "getLeaderboard" /\ apiCall.store = "pending"
    /\ \E data \in getCombos(rows, apiCall.limit) :
         listResult' = Resolved(apiCall.limit, [combos |-> data])
    /\ apiCall' = [apiCall EXCEPT !.store = "ok"]
    /\ UNCHANGED <<statsResult, lastEvent, boardVars>>
    /\ UNCHANGED <<mixerVars, callVars, storeVars, voteVars>>

\* a slip: getLeaderboard without its catch
ApiStoreListFailThrows ==
    /\ apiCall.op = "getLeaderboard" /\ apiCall.store = "pending"
    /\ apiCall' = [apiCall EXCEPT !.store = "failed"]
    /\ listResult' = Rejected(apiCall.limit)
    /\ UNCHANGED <<statsResult, lastEvent, boardVars>>
    /\ UNCHANGED <<mixerVars, callVars, storeVars, voteVars>>

\* supabaseOperations.getCombos(limit) throws: the catch warns and sends
\* GET /leaderboard?limit=N to the backend
ApiStoreListFail ==
    /\ apiCall.op = "getLeaderboard" /\ apiCall.store = "pending"
    /\ apiCall' = [apiCall EXCEPT !.store = "failed", !.backend = "pending"]
    /\ UNCHANGED <<listResult, statsResult, lastEvent, boardVars>>
    /\ UNCHANGED <<mixerVars, callVars, storeVars, voteVars>>

\* the backend answers: return response.data
ApiBackendListOk ==
    /\ apiCall.op = "getLeaderboard" /\ apiCall.backend = "pending"
    /\ \E response \in BackendLeaderboard(rows, apiCall.limit) :
         listResult' = Resolved(apiCall.limit, response)
    /\ apiCall' = [apiCall EXCEPT !.backend = "ok"]
    /\ UNCHANGED <<statsResult, lastEvent, boardVars>>
    /\ UNCHANGED <<mixerVars, callVars, storeVars, voteVars>>

\* the backend request fails too: its error leaves getLeaderboard
ApiBackendListFail ==
    /\ apiCall.op = "getLeaderboard" /\ apiCall.backend = "pending"
    /\ listResult' = Rejected(apiCall.limit)
    /\ apiCall' = [apiCall EXCEPT !.backend = "failed"]
    /\ UNCHANGED <<statsResult, lastEvent, boardVars>>
    /\ UNCHANGED <<mixerVars, callVars, storeVars, voteVars>>

\* apiService.getStats() up to its await
ApiGetStats ==
    /\ apiCall.store # "pending" /\ apiCall.backend # "pending"
    /\ apiCall' = [op |-> "getStats", limit |-> 0,
                   store |-> "pending", backend |-> "none"]
    /\ statsResult' = NoCall
    /\ UNCHANGED <<listResult, lastEvent, boardVars>>
    /\ UNCHANGED <<mixerVars, callVars, storeVars, voteVars>>

\* return await supabaseOperations.getStats()
ApiStoreStatsOk ==
    /\ apiCall.op = "getStats" /\ apiCall.store = "pending"
    /\ statsResult' = Resolved("", getStats(rows))
    /\ apiCall' = [apiCall EXCEPT !.store = "ok"]
    /\ UNCHANGED <<listResult, lastEvent, boardVars>>
    /\ UNCHANGED <<mixerVars, callVars, storeVars, voteVars>>

\* a slip: getStats without its catch
StatsFallbackThrows == Rejected("")

\* the catch of getStats: return { totalCombos: 0, totalVotes: 0 }
StatsFallback == Resolved("", Zeros)

\* supabaseOperations.getStats() throws
ApiStoreStatsFail ==
    /\ apiCall.op = "getStats" /\ apiCall.store = "pending"
    /\ statsResult' = StatsFallback
    /\ apiCall' = [apiCall EXCEPT !.store = "failed"]
    /\ UNCHANGED <<listResult, lastEvent, boardVars>>
    /\ UNCHANGED <<mixerVars, callVars, storeVars, voteVars>>

NextApi ==
    \/ ApiGetLeaderboard
    \/ ApiStoreListOk
    \/ ApiStoreListFail
    \/ ApiBackendListOk
    \/ ApiBackendListFail
    \/ ApiGetStats
    \/ ApiStoreStatsOk
    \/ ApiStoreStatsFail

SpecApi == InitWithRows /\ [][NextApi]_vars

\* C22: apiService.getLeaderboard(limit) queries the store first and calls
\* the backend only after the store query has failed; it returns the store's
\* rows whenever the store query succeeds, and fails only when both fail.
TheoremC22 ==
    apiCall.op = "getLeaderboard" =>
        /\ apiCall.store # "none"
        /\ apiCall.backend # "none" => apiCall.store = "failed"
        /\ apiCall.store = "ok" =>
              /\ listResult.status = "returned"
              /\ listResult.arg = apiCall.limit
              /\ DOMAIN listResult.data = {"combos"}
              /\ Len(listResult.data.combos) =
                    IF Len(rows) < apiCall.limit THEN Len(rows) ELSE apiCall.limit
              /\ \A i \in DOMAIN listResult.data.combos :
                    \E k \in DOMAIN rows : rows[k] = listResult.data.combos[i]
        /\ listResult.status = "threw" <=>
              (apiCall.store = "failed" /\ apiCall.backend = "failed")
        /\ (apiCall.store = "failed" /\ apiCall.backend = "ok") =>
              listResult.status = "returned"

\* the store failed and the backend answered the same limit
WitnessC22 ==
    /\ apiCall = [op |-> "getLeaderboard", limit |-> 3,
                  store |-> "failed", backend |-> "ok"]
    /\ listResult.status = "returned"
    /\ VotesOf(listResult.data.combos) = <<9, 5, 3>>

\* C23: apiService.getStats never throws: when the store query fails it
\* returns {totalCombos: 0, totalVotes: 0}, and when it succeeds the store's
\* row count and vote sum.
TheoremC23 ==
    apiCall.op = "getStats" =>
        /\ statsResult.status # "threw"
        /\ apiCall.backend = "none"
        /\ apiCall.store = "failed" =>
              (statsResult.status = "returned" /\ statsResult.data = Zeros)
        /\ apiCall.store = "ok" =>
              /\ statsResult.status = "returned"
              /\ statsResult.data.totalCombos = Cardinality(DOMAIN rows)
              /\ statsResult.data.totalVotes =
                    Cardinality({<<i, n>> \in (DOMAIN rows) \X (1..9) : n <= rows[i].votes})

\* the store holds combos and votes, its query failed, and zeros came back
WitnessC23 ==
    /\ apiCall.op = "getStats"
    /\ apiCall.store = "failed"
    /\ Len(rows) = 4
    /\ SumVotes(rows) = 18
    /\ statsResult = Resolved("", Zeros)

(***************************************************************************)
(* The Leaderboard component, on the api client of unnamed/part_003 and    *)
(* the backend's GET /leaderboard and GET /stats.                          *)
(***************************************************************************)
BoardLimit == 10

MsgLeaderboard == "Failed to get leaderboard"

\* POST /vote: the atomic increment of the row
BackendIncrement(rs, id, t) == increment_votes(rs, id, t)

\* whether a fetchStats call has finished
Settled(req) == req.pc \in {"done", "failed"}

Remove(seq, k) == SubSeq(seq, 1, k - 1) \o SubSeq(seq, k + 1, Len(seq))

\* the calls after call k has finished: a finished call is kept only while
\* it is the one started last
Settle(calls, k, pc) ==
    IF k = Len(calls) THEN [calls EXCEPT ![k].pc = pc] ELSE Remove(calls, k)

\* fetchStats() up to its await
StartStats(calls) ==
    (IF calls # <<>> /\ Settled(calls[Len(calls)])
     THEN SubSeq(calls, 1, Len(calls) - 1)
     ELSE calls) \o << [pc |-> "get", data |-> Null] >>

\* useEffect(() => { fetchLeaderboard(); fetchStats() }, []): both requests
\* are sent before either answer is handled
Mount ==
    /\ fetchPc = "new"
    /\ boardLoading' = TRUE
    /\ boardError' = ""
    /\ fetchPc' = "get"
    /\ statsReqs' = StartStats(statsReqs)
    /\ UNCHANGED <<combos, stats, listResp, votingLoading, voteReqs>>
    /\ UNCHANGED <<lastEvent, readVars, mixerVars, callVars, storeVars, voteVars>>

\* fetchLeaderboard from the Refresh or Try Again button, up to its await;
\* the buttons are rendered only while loading is false
FetchLeaderboard ==
    /\ ~boardLoading
    /\ fetchPc = "idle"
    /\ boardLoading' = TRUE
    /\ boardError' = ""
    /\ fetchPc' = "get"
    /\ UNCHANGED <<combos, stats, listResp, statsReqs, votingLoading, voteReqs>>
    /\ UNCHANGED <<lastEvent, readVars, mixerVars, callVars, storeVars, voteVars>>

\* the backend answers GET /leaderboard?limit=10 from the store as it is
LeaderboardServe ==
    /\ fetchPc = "get"
    /\ \E response \in BackendLeaderboard(rows, BoardLimit) : listResp' = response
    /\ fetchPc' = "answered"
    /\ UNCHANGED <<combos, stats, boardLoading, boardError, statsReqs,
                   votingLoading, voteReqs>>
    /\ UNCHANGED <<lastEvent, readVars, mixerVars, callVars, storeVars, voteVars>>

\* api.getLeaderboard(10) resolves: setCombos(response.combos || [])
GetLeaderboardOk ==
    /\ fetchPc = "answered"
    /\ combos' = listResp.combos
    /\ boardLoading' = FALSE
    /\ fetchPc' = "idle"
    /\ listResp' = Null
    /\ UNCHANGED <<stats, boardError, statsReqs, votingLoading, voteReqs>>
    /\ UNCHANGED <<lastEvent, readVars, mixerVars, callVars, storeVars, voteVars>>

\* api.getLeaderboard(10) rejects (the request or its answer is lost, or the
\* 10 s timeout passes): setError(err.message || ...)
GetLeaderboardFail ==
    /\ fetchPc \in {"get", "answered"}
    /\ boardError' = MsgLeaderboard
    /\ boardLoading' = FALSE
    /\ fetchPc' = "idle"
    /\ listResp' = Null
    /\ UNCHANGED <<combos, stats, statsReqs, votingLoading, voteReqs>>
    /\ UNCHANGED <<lastEvent, readVars, mixerVars, callVars, storeVars, voteVars>>

\* the backend answers one GET /stats from the store as it is
StatsServe ==
    /\ \E k \in DOMAIN statsReqs :
         /\ statsReqs[k].pc = "get"
         /\ statsReqs' = [statsReqs EXCEPT ![k] =
                            [pc |-> "answered", data |-> BackendStats(rows)]]
    /\ UNCHANGED <<combos, stats, boardLoading, boardError, fetchPc, listResp,
                   votingLoading, voteReqs>>
    /\ UNCHANGED <<lastEvent, readVars, mixerVars, callVars, storeVars, voteVars>>

\* api.getStats() resolves: setStats(statsData)
GetStatsOk ==
    /\ \E k \in DOMAIN statsReqs :
         /\ statsReqs[k].pc = "answered"
         /\ stats' = statsReqs[k].data
         /\ statsReqs' = Settle(statsReqs, k, "done")
    /\ UNCHANGED <<combos, boardLoading, boardError, fetchPc, listResp,
                   votingLoading, voteReqs>>
    /\ UNCHANGED <<lastEvent, readVars, mixerVars, callVars, storeVars, voteVars>>

\* api.getStats() rejects: the catch logs a warning and stats stay as they were
GetStatsFail ==
    /\ \E k \in DOMAIN statsReqs :
         /\ statsReqs[k].pc \in {"get", "answered"}
         /\ statsReqs' = Settle(statsReqs, k, "failed")
    /\ UNCHANGED <<combos, stats, boardLoading, boardError, fetchPc, listResp,
                   votingLoading, voteReqs>>
    /\ UNCHANGED <<lastEvent, readVars, mixerVars, callVars, storeVars, voteVars>>

\* the ids of the combos on display
Displayed == { combos[i].id : i \in DOMAIN combos }

\* the votes the store holds and the vote requests the backend has not run
VotesUnderWay ==
    SumVotes(rows) + Cardinality({k \in DOMAIN voteReqs : voteReqs[k].pc = "post"})

\* a slip: handleVote without its votingLoading test
IsVotingNever(voting, id) == FALSE

\* if (votingLoading[comboId]) return
IsVoting(voting, id) == id \in voting

\* handleVote(combo.id) up to its await; the Vote buttons are part of the
\* render that follows if (loading) return
HandleBoardVote ==
    /\ ~boardLoading
    /\ VotesUnderWay < MaxBoardVotes
    /\ \E id \in Displayed :
         IF IsVoting(votingLoading, id)
         THEN UNCHANGED <<votingLoading, voteReqs>>
         ELSE /\ votingLoading' = votingLoading \cup {id}
              /\ voteReqs' = Append(voteReqs, [id |-> id, pc |-> "post"])
    /\ UNCHANGED <<combos, stats, boardLoading, boardError, fetchPc, listResp, statsReqs>>
    /\ UNCHANGED <<lastEvent, readVars, mixerVars, callVars, storeVars, voteVars>>

\* the backend runs POST /vote
BoardVoteServe ==
    /\ \E k \in DOMAIN voteReqs :
         /\ voteReqs[k].pc = "post"
         /\ rows' = BackendIncrement(rows, voteReqs[k].id, now)
         /\ voteReqs' = [voteReqs EXCEPT ![k].pc = "applied"]
    /\ UNCHANGED <<combos, stats, boardLoading, boardError, fetchPc, listResp,
                   statsReqs, votingLoading>>
    /\ UNCHANGED <<now, lastEvent, readVars, mixerVars, callVars, voteVars>>

\* prev.map(combo => combo.id === comboId
\*     ? { ...combo, votes: (combo.votes || 0) + 1 } : combo)
AddVote(list, id) ==
    [i \in DOMAIN list |->
        IF list[i].id = id
        THEN [votes |-> Col(list[i], "votes", 0) + 1] @@ list[i]
        ELSE list[i]]

\* api.voteForCombo resolves: the local + 1, fetchStats(), and the finally
BoardVoteOk ==
    /\ \E k \in DOMAIN voteReqs :
         /\ voteReqs[k].pc = "applied"
         /\ combos' = AddVote(combos, voteReqs[k].id)
         /\ votingLoading' = votingLoading \ {voteReqs[k].id}
         /\ voteReqs' = Remove(voteReqs, k)
    /\ statsReqs' = StartStats(statsReqs)
    /\ UNCHANGED <<stats, boardLoading, boardError, fetchPc, listResp>>
    /\ UNCHANGED <<lastEvent, readVars, mixerVars, callVars, storeVars, voteVars>>

\* a slip: the catch without the finally
BoardVoteFailNoFinally ==
    /\ \E k \in DOMAIN voteReqs : voteReqs' = Remove(voteReqs, k)
    /\ UNCHANGED <<combos, stats, boardLoading, boardError, fetchPc, listResp,
                   statsReqs, votingLoading>>
    /\ UNCHANGED <<lastEvent, readVars, mixerVars, callVars, storeVars, voteVars>>

\* api.voteForCombo rejects (the request or its answer is lost, or the
\* timeout passes): the catch logs the error, then the finally
BoardVoteFail ==
    /\ \E k \in DOMAIN voteReqs :
         /\ votingLoading' = votingLoading \ {voteReqs[k].id}
         /\ voteReqs' = Remove(voteReqs, k)
    /\ UNCHANGED <<combos, stats, boardLoading, boardError, fetchPc, listResp, statsReqs>>
    /\ UNCHANGED <<lastEvent, readVars, mixerVars, callVars, storeVars, voteVars>>

\* Math.round(a / b) for a >= 0, b > 0
Round(a, b) == (2 * a + b) \div (2 * b)

\* the 'Avg Votes' card is part of the render that follows if (loading) return;
\* its division is evaluated when combos.length > 0
AvgVotesDivides == ~boardLoading /\ Len(combos) > 0

\* combos.length > 0 ? Math.round(stats.totalVotes / stats.totalCombos) : 0
AvgVotes ==
    IF Len(combos) > 0
    THEN IF stats.totalCombos # 0 THEN Round(stats.totalVotes, stats.totalCombos)
         ELSE IF stats.totalVotes = 0 THEN "NaN" ELSE "Infinity"
    ELSE 0

NextBoard ==
    \/ CreateCombo
    \/ Mount
    \/ FetchLeaderboard
    \/ LeaderboardServe
    \/ GetLeaderboardOk
    \/ GetLeaderboardFail
    \/ StatsServe
    \/ GetStatsOk
    \/ GetStatsFail
    \/ HandleBoardVote
    \/ BoardVoteServe
    \/ BoardVoteOk
    \/ BoardVoteFail

SpecBoard == InitWithStore /\ [][NextBoard]_vars

\* C13: whenever the Leaderboard evaluates the division of its average-votes
\* figure, stats.totalCombos is greater than 0.
CounterexampleC13 == AvgVotesDivides => stats.totalCombos > 0

(***************************************************************************)
(* Properties of the record that generateCombo stores and returns.         *)
(***************************************************************************)
\* C14: when the insert of generateCombo succeeds, the result handed to the
\* component carries the id, votes, created_at and updated_at of the row
\* the store has just inserted.
CounterexampleC14 ==
    [][CreateComboOk =>
         LET row == rows'[Len(rows')]
         IN  /\ result' # Null
             /\ {"id", "votes", "created_at", "updated_at"} \subseteq DOMAIN result'
             /\ result'.id = row.id
             /\ result'.votes = row.votes
             /\ result'.created_at = row.created_at
             /\ result'.updated_at = row.updated_at]_vars

\* C16: the row that generateCombo inserts has name, slogan, description,
\* product1, product2, mode, host_reaction, image_url and
\* compatibility_score equal to the fields of the generation result and of
\* the request, and votes = 0.
CounterexampleC16 ==
    [][CreateComboOk =>
         LET row == rows'[Len(rows')]
             combo == genResp.combo
         IN  /\ row.name = combo.name
             /\ row.slogan = combo.slogan
             /\ row.description = combo.flavor_description
             /\ row.product1 = genReq.product1
             /\ row.product2 = genReq.product2
             /\ row.mode = genReq.mode
             /\ row.host_reaction = combo.host_reaction
             /\ row.votes = 0
             /\ row.image_url = combo.image_url
             /\ row.compatibility_score = combo.compatibility_score]_vars

(***************************************************************************)
(* The BrandMixer from its construction: the form handlers, the generate   *)
(* flow and handleVote.                                                    *)
(***************************************************************************)
\* two of the popularBrands
Brands == { <<"N">>, <<"A">> }

\* fillRandomBrands / handleRandomize: two different entries of the
\* shuffled brand list; the button is disabled while loading
FillRandomBrands ==
    /\ ~loading
    /\ \E b1 \in Brands, b2 \in Brands :
         /\ b1 # b2
         /\ product1' = b1
         /\ product2' = b2
    /\ lastEvent' = "fillRandomBrands"
    /\ UNCHANGED <<component, mode, loading, result, error>>
    /\ UNCHANGED <<callVars, storeVars, voteVars, readVars, boardVars>>

\* onClick={() => setMode(modeOption.id)} on one of the three mode options
SetMode ==
    /\ \E m \in Modes : mode' = m
    /\ lastEvent' = "setMode"
    /\ UNCHANGED <<component, product1, product2, loading, result, error>>
    /\ UNCHANGED <<callVars, storeVars, voteVars, readVars, boardVars>>

\* resetForm; the button is disabled while loading
ResetForm ==
    /\ component = "unnamed/part_002"
    /\ ~loading
    /\ product1' = <<>>
    /\ product2' = <<>>
    /\ mode' = "competitive"
    /\ result' = Null
    /\ error' = ""
    /\ lastEvent' = "resetForm"
    /\ UNCHANGED <<component, loading>>
    /\ UNCHANGED <<callVars, storeVars, voteVars, readVars, boardVars>>

\* a slip: handleVote without its early return
HasIdUnguarded(r) == TRUE

\* result?.id is truthy
HasId(r) == r # Null /\ "id" \in DOMAIN r

\* apiService.voteForCombo(id) as a whole: the store after the call and
\* whether the promise resolved.  The rpc runs increment_votes or does not
\* reach the database; if it reports an error the backend's POST /vote
\* runs its increment or is not reached.
voteForCombo(rs, id, t) ==
    LET once == increment_votes(rs, id, t)
        twice == increment_votes(once, id, t)
        found == Matched(rs, id) > 0
    IN  { [rows |-> once, resolved |-> TRUE] }
        \cup { [rows |-> r, resolved |-> found] : r \in {once, twice} }
        \cup { [rows |-> r, resolved |-> FALSE] : r \in {rs, once, twice} }

\* handleVote; the Vote button is rendered with the result
HandleVote ==
    /\ component = "unnamed/part_002"
    /\ result # Null
    /\ IF ~HasId(result)
       THEN UNCHANGED <<result, rows>>
       ELSE \E outcome \in voteForCombo(rows, Col(result, "id", NoSuchId), now) :
              /\ rows' = outcome.rows
              /\ result' = IF outcome.resolved
                           THEN [votes |-> Col(result, "votes", 0) + 1] @@ result
                           ELSE result
    /\ lastEvent' = "handleVote"
    /\ UNCHANGED <<component, product1, product2, mode, loading, error>>
    /\ UNCHANGED <<callVars, now, voteVars, readVars, boardVars>>

\* the component as constructed: the useState values
InitMixer ==
    /\ component \in Components
    /\ product1 = <<>>
    /\ product2 = <<>>
    /\ mode = "competitive"
    /\ loading = FALSE
    /\ result = Null
    /\ error = ""
    /\ InitCalls
    /\ InitStore
    /\ InitVotes
    /\ InitViews

NextMixer ==
    \/ FillRandomBrands
    \/ SetMode
    \/ ResetForm
    \/ HandleGenerate
    \/ PostGenerateOk
    \/ PostGenerateFail
    \/ CreateComboOk
    \/ CreateComboFail
    \/ HandleVote

SpecMixer == InitMixer /\ [][NextMixer]_vars

\* C15: handleVote on a result without an id changes neither the result
\* (its vote count included) nor the store, and starts no vote call.
TheoremC15 ==
    [][(HandleVote /\ "id" \notin DOMAIN result)
         => /\ result' = result
            /\ Col(result', "votes", 0) = Col(result, "votes", 0)
            /\ UNCHANGED <<rows, now, voteVars>>]_vars

WitnessC15 ==
    /\ lastEvent = "handleVote"
    /\ result # Null
    /\ "id" \notin DOMAIN result
    /\ "votes" \notin DOMAIN result
    /\ rows # <<>>
    /\ \A i \in DOMAIN rows : rows[i].votes = 0

\* C17: the selected mode is always one of competitive, collaborative and
\* fusion; it is competitive at construction and after resetForm;
\* generateCombo called without a mode sends competitive; the mode of the
\* POST /generate request is the mode selected when handleGenerate started,
\* whatever is selected while the request is in flight.
TheoremC17 ==
    /\ mode = "competitive"
    /\ [][/\ mode' \in Modes
          /\ ResetForm => mode' = "competitive"
          /\ GenerateBody(product1, product2, Undefined).mode = "competitive"
          /\ (genPc = "idle" /\ genPc' = "post") => genReq'.mode = mode
          /\ (genPc = "post" /\ genPc' = "post") => genReq'.mode = genReq.mode]_vars

WitnessC17 ==
    /\ genPc = "post"
    /\ genReq.mode = "fusion"
    /\ mode = "collaborative"
    /\ lastEvent = "setMode"

(***************************************************************************)
(* The generate flow with the scheduling the code guarantees: the axios    *)
(* client has timeout: 10000, so POST /generate is answered or fails; the  *)
(* insert of supabaseOperations.createCombo has no timeout.                *)
(***************************************************************************)
SpecLive == Init /\ [][Next]_vars /\ WF_vars(PostGenerateOk \/ PostGenerateFail)

\* C18: whenever a generate action has set loading to true, loading becomes
\* false again.
CounterexampleC18 == (loading = TRUE) ~> (loading = FALSE)

\* C19: when POST /generate fails (the backend not reached), the generate
\* action ends with a non-empty error, a null result and loading false, and
\* no insert was attempted.
TheoremC19 ==
    [][PostGenerateFail
         => /\ error' # ""
            /\ result' = Null
            /\ loading' = FALSE
            /\ insertReq = Null /\ insertReq' = Null
            /\ rows' = rows]_vars

WitnessC19 ==
    /\ lastEvent = "handleGenerate"
    /\ genPc = "idle"
    /\ error = MsgFailed
    /\ result = Null
    /\ ~loading
    /\ rows = <<>>

\* C21: one generateCombo call sends POST /generate at most once and the
\* insert at most once; the insert is sent only in the step in which
\* POST /generate returned successfully, never when it failed; a row is
\* written only by a call that sent its insert; after the insert no
\* further request of the call follows.
TheoremC21 ==
    [][/\ reqs'.generate <= 1
       /\ reqs'.insert <= 1
       /\ reqs'.insert > reqs.insert => (genPc = "post" /\ PostGenerateOk)
       /\ PostGenerateFail
            => (reqs'.insert = 0 /\ insertReq' = Null /\ rows' = rows)
       /\ rows' # rows => (genPc = "insert" /\ reqs.insert = 1)
       /\ genPc = "insert" => genPc' \in {"insert", "idle"}]_vars

WitnessC21 ==
    /\ genPc = "idle"
    /\ reqs = [inflight |-> 0, generate |-> 1, insert |-> 1]
    /\ Len(rows) = 1
    /\ result # Null

\* C27: at most one generateCombo call is in flight; loading is true exactly
\* while one is in flight; no step taken while loading is true starts a
\* further call.
TheoremC27 ==
    [][/\ reqs'.inflight <= 1
       /\ loading' <=> reqs'.inflight = 1
       /\ loading' <=> genPc' # "idle"
       /\ loading => reqs'.inflight <= reqs.inflight]_vars

WitnessC27 ==
    /\ loading
    /\ reqs.inflight = 1
    /\ genPc = "insert"
    /\ lastEvent = "setMode"

(***************************************************************************)
(* The BrandMixer with a filled form whose inputs are edited.              *)
(***************************************************************************)
TypedNames == { <<"N">>, <<"n">>, <<"A">> }

\* onChange={(e) => setProduct1(e.target.value)}
SetProduct1 ==
    /\ \E name \in TypedNames : product1' = name
    /\ lastEvent' = "setProduct1"
    /\ UNCHANGED <<component, product2, mode, loading, result, error>>
    /\ UNCHANGED <<callVars, storeVars, voteVars, readVars, boardVars>>

\* onChange={(e) => setProduct2(e.target.value)}
SetProduct2 ==
    /\ \E name \in TypedNames : product2' = name
    /\ lastEvent' = "setProduct2"
    /\ UNCHANGED <<component, product1, mode, loading, result, error>>
    /\ UNCHANGED <<callVars, storeVars, voteVars, readVars, boardVars>>

InitTyped ==
    /\ component \in Components
    /\ product1 = <<"N">>
    /\ product2 = <<"A">>
    /\ mode = "competitive"
    /\ loading = FALSE
    /\ result = Null
    /\ error = ""
    /\ InitCalls
    /\ InitStore
    /\ InitVotes
    /\ InitViews

NextTyped ==
    \/ SetProduct1
    \/ SetProduct2
    \/ ResetForm
    \/ HandleGenerate
    \/ PostGenerateOk
    \/ PostGenerateFail
    \/ CreateComboOk
    \/ CreateComboFail
    \/ HandleVote

SpecTyped == InitTyped /\ [][NextTyped]_vars

\* C28: the BrandMixer never holds a non-empty error and a non-null result
\* at the same time.
CounterexampleC28 == ~(error # "" /\ result # Null)


(***************************************************************************)
(* Votes cast from the Leaderboard.                                        *)
(***************************************************************************)
\* the votes the store holds for the combo with this id
StoreVotes(id) == RowOf(id).votes

\* the vote requests in flight for one combo
InFlightFor(id) == { k \in DOMAIN voteReqs : voteReqs[k].id = id }

\* C24: in every reachable state of the Leaderboard the vote count displayed
\* for a combo is at most the vote count the store holds for it, whatever
\* the interleaving of handleVote and fetchLeaderboard.
CounterexampleC24 ==
    \A i \in DOMAIN combos : Col(combos[i], "votes", 0) <= StoreVotes(combos[i].id)

\* C25: the list of combos the Leaderboard holds is ordered by votes
\* descending after any sequence of fetchLeaderboard and successful handleVote.
CounterexampleC25 ==
    \A i, j \in DOMAIN combos :
        i < j => Col(combos[i], "votes", 0) >= Col(combos[j], "votes", 0)

\* C26: at most one vote request per combo is in flight; a handleVote(id)
\* made while a request for id is in flight sends nothing; and
\* votingLoading[id] is true exactly while a request for id is in flight.
TheoremC26 ==
    [][/\ \A id \in Ids' :
            /\ Cardinality(InFlightFor(id)') <= 1
            /\ id \in votingLoading' <=> InFlightFor(id)' # {}
       /\ \A id \in Ids :
            (HandleBoardVote /\ InFlightFor(id) # {}) =>
                InFlightFor(id)' = InFlightFor(id)]_vars

\* a vote request for combo 1 is in flight, its button is locked, and the
\* other combo can still be voted for
WitnessC26 ==
    /\ ~boardLoading
    /\ Displayed = {1, 2}
    /\ votingLoading = {1}
    /\ Cardinality(InFlightFor(1)) = 1
    /\ InFlightFor(2) = {}
    /\ VotesUnderWay < MaxBoardVotes

\* C29: when the vote request of handleVote(id) fails, the list and its vote
\* counts stay as they were, no stats refresh is started, and
\* votingLoading[id] is false again.
TheoremC29 ==
    [][BoardVoteFail =>
        /\ combos' = combos
        /\ statsReqs' = statsReqs
        /\ stats' = stats
        /\ \A id \in votingLoading \ votingLoading' : InFlightFor(id)' = {}
        /\ \A id \in Ids : InFlightFor(id)' = {} => id \notin votingLoading'
        /\ Len(voteReqs') = Len(voteReqs) - 1]_vars

\* a vote the backend counted whose answer was lost: the store has it, the
\* list does not, nothing is in flight and the button is free again
WitnessC29 ==
    /\ ~boardLoading
    /\ Len(combos) = 1
    /\ Col(combos[1], "votes", 0) = 0
    /\ StoreVotes(combos[1].id) = 1
    /\ voteReqs = <<>>
    /\ votingLoading = {}
    /\ \A k \in DOMAIN statsReqs : Settled(statsReqs[k])

\* C30: once every stats request has completed, the stats on display are
\* those of the fetchStats call started last.
CounterexampleC30 ==
    (/\ statsReqs # <<>>
     /\ \A k \in DOMAIN statsReqs : Settled(statsReqs[k])
     /\ statsReqs[Len(statsReqs)].pc = "done")
        => stats = statsReqs[Len(statsReqs)].data

====
